---------------------------- MODULE Spec2Model ----------------------------
(***************************************************************************)
(* State-machine model of the graph-search core of aoc_tools:              *)
(*   - a_star_search and the ASNode base class (algorithms/a_star_search)  *)
(*   - full_search and the FNode base classes (algorithms/full_search and  *)
(*     algorithms/graphs/full_search)                                      *)
(* A node is a Python object: besides the data its class computes (id, g,  *)
(* h) it has an identity, the field obj.  The base classes define __hash__ *)
(* and no __eq__, so == between nodes is Python's default, identity.       *)
(* A full_search run that never ends creates node objects without end: the *)
(* model numbers the first MaxObj of them, and gives the later ones obj 0.  *)
(* A node of obj 0 is a different object from every other node.            *)
(***************************************************************************)
EXTENDS Integers, Sequences, FiniteSets, TLC

\* ------------------------------------------------------------- bounds
\* Largest cost of one step of the successor relation.
MaxCost == 2
\* Largest heuristic value h of a state.
MaxH == 1
\* The number of new node objects of a full_search run the model numbers.
MaxObj == 7
\* The longest pending list of a full_search run the model follows.
MaxPending == 4
\* The most assignments to the year and day properties of a PathsManager
\* the model follows.
MaxAssignments == 3

\* ------------------------------------------------- the caller's graph
\* The states (node ids) of the graphs searched by a_star_search.
Ids == {"A", "B", "C"}
\* The order in which get_successors enumerates the successor states.
IdOrder == <<"A", "B", "C">>
\* The state of the start node.
StartId == "A"
\* The steps a graph may have: two ways from A to each of B and C, and the
\* cycles A->B->A and B->C->B.
EdgeSlots == {<<"A", "B">>, <<"A", "C">>, <<"B", "C">>, <<"C", "B">>,
              <<"B", "A">>}

VARIABLES
    cost,           \* the caller's graph: step <<u, v>> |-> its cost
    hval,           \* the caller's heuristic: state |-> h
    goals,          \* the states for which goal_func holds
    goalFrom,       \* the least g for which goal_func holds (0: it looks
                    \*   at the state alone)
    succOrder,      \* the caller's node class: the order in which
                    \*   get_successors enumerates the successor states
    pending_nodes,  \* a_star_search: the heap of pending nodes
    visited_nodes,  \* a_star_search: the set of visited nodes
    best_g_costs,   \* a_star_search: id |-> best g registered
    apc,            \* a_star_search: "loop", "returned" or "raised"
    result,         \* a_star_search: the returned node (<<>> before)
    popped,         \* history: the nodes popped, in pop order
    expanded,       \* history: the ids whose get_successors was called
    nextObj,        \* a_star_search: the identity of the next node object
    fsucc,          \* full_search: the caller's graph, state |-> successors
    shared,         \* full_search: get_successors hands out one node object
                    \*   per state (TRUE) or new objects on every call (FALSE)
    fpending,       \* full_search: the list of pending nodes
    fvisited,       \* full_search: the set of visited nodes
    fpc,            \* full_search: "loop", "done" or "beyond"
    fcalls,         \* history: id |-> the number of get_successors calls
                    \*   on nodes of that id (2: two or more)
    fnext,          \* full_search: the identity of the next node object
    year,           \* PathsManager._year
    day,            \* PathsManager._day
    files_map,      \* PathsManager._files_map: file name |-> path
    templates_map,  \* PathsManager._templates_map: file name |-> path
    given,          \* history: the arguments of PathsManager(...)
    log,            \* history: the assignments to the year and day
                    \*   properties, in order
    builds,         \* history: the number of _build_file_paths calls
    hpc,            \* "idle": no PathsManager; "ready": one was built
    path_secrets,   \* AdventScrapper.paths: the object has a path_secrets
                    \*   attribute (FALSE for the PathsManager class)
    sop,            \* history: the AdventScrapper method called last
                    \*   ("idle" before the first call)
    sin,            \* history: what that call was given and what it met
                    \*   (the clock, the secrets file, the web's answer)
    sout,           \* history: how that call ended and what it did
    bpuzzles,       \* AdventBuilder._puzzles: day |-> puzzle name
                    \*   (<<>>: no AdventBuilder)
    fs,             \* the file system: path |-> content of the file
    written,        \* history: path |-> the content of the first write
                    \*   an AdventBuilder made to it
    bop,            \* history: the last AdventBuilder call
    cnames,         \* AdventCalendar._data["Puzzle"]: day |-> name
                    \*   (<<>>: no AdventCalendar)
    crows,          \* AdventCalendar._data, the other columns: day |-> row
    readme,         \* the calendar table in the README file
    cop,            \* history: the last AdventCalendar or AdventSolver call
    cin,            \* history: what that call was given and met
    cout            \* history: how that call ended and what it did

asVars == <<cost, hval, goals, goalFrom, succOrder, pending_nodes, visited_nodes,
            best_g_costs, apc, result, popped, expanded, nextObj>>

fsVars == <<fsucc, shared, fpending, fvisited, fpc, fcalls, fnext>>

pmVars == <<year, day, files_map, templates_map, given, log, builds, hpc>>

scVars == <<path_secrets, sop, sin, sout>>

abVars == <<bpuzzles, fs, written, bop>>

acVars == <<cnames, crows, readme, cop, cin, cout>>

toolVars == <<abVars, acVars>>

hostVars == <<pmVars, scVars, toolVars>>

vars == <<asVars, fsVars, hostVars>>

\* ---------------------------------------------------------- ASNode
\* The node object for state i reached at cost g, created as object o by
\* the get_successors call of object p (0: no parent).
ASNode(i, gcost, o, p) == [id |-> i, g |-> gcost, obj |-> o, parent |-> p]

\* ASNode.h: the concrete class's estimate, a function of the state.
H(n) == hval[n.id]

\* ASNode.f
F(n) == n.g + H(n)

\* ASNode.__hash__
NodeHash(n) == n.id

\* ASNode defines no __eq__: == is object identity.
NodeEq(a, b) == a.obj = b.obj /\ a.obj # 0

\* Mutant of NodeLt: nodes ordered by the estimate h alone.
NodeLtByH(a, b) == H(a) < H(b)

\* ASNode.__lt__
NodeLt(a, b) == F(a) < F(b)

\* `n in s` for a Python set s: an element with n's hash that == n.
SetContains(s, n) == \E m \in s : NodeHash(m) = NodeHash(n) /\ NodeEq(m, n)

\* Mutant of SetAdd: the set left as it was.
SetAddOmitted(s, n) == s

\* s.add(n) for a Python set s: the set afterwards.
SetAdd(s, n) == IF SetContains(s, n) THEN s ELSE s \cup {n}

\* goal_func(n): a predicate on the node, here on its state and its g.
GoalFunc(n) == n.id \in goals /\ n.g >= goalFrom

\* Mutant of GoalTest: the condition inverted.
GoalTestInverted(q) == ~GoalFunc(q)

\* Mutant of GoalTest: a node whose id is visited is not tested.
GoalTestUnvisitedOnly(q) == GoalFunc(q) /\ q.id \notin {n.id : n \in visited_nodes}

\* if goal_func(q_node): return q_node
GoalTest(q) == GoalFunc(q)

\* The smaller of two numbers.
Min(a, b) == IF a <= b THEN a ELSE b

\* ------------------------------------------------------------ heapq
\* Positions are Python's (from 0); heap[p + 1] is the element at p.
RECURSIVE SiftDownLoop(_, _, _, _)
SiftDownLoop(heap, newitem, startpos, pos) ==
    IF pos > startpos
    THEN LET parentpos == (pos - 1) \div 2
             parent == heap[parentpos + 1]
         IN  IF NodeLt(newitem, parent)
             THEN SiftDownLoop([heap EXCEPT ![pos + 1] = parent],
                               newitem, startpos, parentpos)
             ELSE [heap EXCEPT ![pos + 1] = newitem]
    ELSE [heap EXCEPT ![pos + 1] = newitem]

\* heapq._siftdown
SiftDown(heap, startpos, pos) ==
    SiftDownLoop(heap, heap[pos + 1], startpos, pos)

RECURSIVE SiftUpLoop(_, _, _)
SiftUpLoop(heap, newitem, pos) ==
    LET endpos == Len(heap)
        childpos == 2 * pos + 1
        rightpos == childpos + 1
    IN  IF childpos < endpos
        THEN LET c == IF rightpos < endpos
                         /\ ~NodeLt(heap[childpos + 1], heap[rightpos + 1])
                      THEN rightpos ELSE childpos
             IN  SiftUpLoop([heap EXCEPT ![pos + 1] = heap[c + 1]], newitem, c)
        ELSE <<[heap EXCEPT ![pos + 1] = newitem], pos>>

\* heapq._siftup
SiftUp(heap, pos) ==
    LET r == SiftUpLoop(heap, heap[pos + 1], pos)
    IN  SiftDown(r[1], pos, r[2])

\* heapq.heappush(heap, item): the heap afterwards
HeapPush(heap, item) == SiftDown(Append(heap, item), 0, Len(heap))

\* Mutant of HeapPop: list.pop(), the last element of the heap.
HeapPopLast(heap) == <<heap[Len(heap)], SubSeq(heap, 1, Len(heap) - 1)>>

\* heapq.heappop(heap): <<the item returned, the heap afterwards>>
HeapPop(heap) ==
    LET lastelt == heap[Len(heap)]
        rest == SubSeq(heap, 1, Len(heap) - 1)
    IN  IF rest # <<>>
        THEN <<rest[1], SiftUp([rest EXCEPT ![1] = lastelt], 0)>>
        ELSE <<lastelt, rest>>

\* ------------------------------------------------- get_successors
RECURSIVE SuccIds(_, _)
\* The successor states of state u among succOrder[k..], in that order.
SuccIds(u, k) ==
    IF k > Len(succOrder) THEN <<>>
    ELSE IF <<u, succOrder[k]>> \in DOMAIN cost
         THEN <<succOrder[k]>> \o SuccIds(u, k + 1)
         ELSE SuccIds(u, k + 1)

\* Mutant of GetSuccessors: g is the cost of the last step alone.
GetSuccessorsLastStepG(q, firstObj) ==
    LET ids == SuccIds(q.id, 1)
    IN  [k \in 1..Len(ids) |->
            ASNode(ids[k], cost[<<q.id, ids[k]>>], firstObj + k - 1, q.obj)]

\* q.get_successors(): one new node object per step out of q's state, with
\* q as parent and g = q.g + the step's cost.
GetSuccessors(q, firstObj) ==
    LET ids == SuccIds(q.id, 1)
    IN  [k \in 1..Len(ids) |->
            ASNode(ids[k], q.g + cost[<<q.id, ids[k]>>], firstObj + k - 1, q.obj)]

\* ---------------------------------------------------- a_star_search
\* Mutant of BestAtMost: best_g_costs.get(i, 0) <= gcost
BestAtMostDefaultZero(best, i, gcost) ==
    gcost >= (IF i \in DOMAIN best THEN best[i] ELSE 0)

\* best_g_costs.get(i, math.inf) <= gcost
BestAtMost(best, i, gcost) == i \in DOMAIN best /\ gcost >= best[i]

\* Mutant of SetBest: the cost is recorded for ids without one only.
SetBestOnce(best, i, gcost) ==
    [j \in DOMAIN best \cup {i} |-> IF j \in DOMAIN best THEN best[j] ELSE gcost]

\* best_g_costs[i] = gcost
SetBest(best, i, gcost) ==
    [j \in DOMAIN best \cup {i} |-> IF j = i THEN gcost ELSE best[j]]

\* Mutant of SkipSuccessor: a successor is taken as visited when a node of
\* its id is in visited_nodes.
SkipSuccessorByVisitedId(s, visited, best) ==
    s.id \in {v.id : v \in visited} \/ BestAtMost(best, s.id, s.g)

\* Whether the loop over the successors skips s.
SkipSuccessor(s, visited, best) ==
    SetContains(visited, s) \/ BestAtMost(best, s.id, s.g)

RECURSIVE RegisterSuccessors(_, _, _, _, _)
\* The for loop over succs[k..]: <<pending_nodes, best_g_costs>> after it.
RegisterSuccessors(succs, k, heap, best, visited) ==
    IF k > Len(succs) THEN <<heap, best>>
    ELSE LET s == succs[k]
         IN  IF SkipSuccessor(s, visited, best)
             THEN RegisterSuccessors(succs, k + 1, heap, best, visited)
             ELSE RegisterSuccessors(succs, k + 1, HeapPush(heap, s),
                                     SetBest(best, s.id, s.g), visited)

\* The graphs, heuristics and goal predicates of the model.
Inputs ==
    /\ \E E \in SUBSET EdgeSlots : cost \in [E -> 0..MaxCost]
    /\ hval \in [Ids -> 0..MaxH]
    /\ goals \in SUBSET Ids
    /\ goalFrom = 0
    /\ succOrder = IdOrder

\* No AdventScrapper method was called.
IdleScrap ==
    /\ path_secrets = FALSE
    /\ sop = "idle"
    /\ sin = <<>>
    /\ sout = <<>>

\* No AdventBuilder exists.
IdleBuilder ==
    /\ bpuzzles = <<>>
    /\ fs = <<>>
    /\ written = <<>>
    /\ bop = "idle"

\* No AdventCalendar exists.
IdleCalendar ==
    /\ cnames = <<>>
    /\ crows = <<>>
    /\ readme = <<>>
    /\ cop = "idle"
    /\ cin = <<>>
    /\ cout = <<>>

\* None of the tools built on PathsManager and AdventScrapper exists.
IdleTools ==
    /\ IdleBuilder
    /\ IdleCalendar

\* No PathsManager was built, no AdventScrapper method was called.
IdleHost ==
    /\ IdleScrap
    /\ IdleTools
    /\ year = 0
    /\ day = 0
    /\ files_map = <<>>
    /\ templates_map = <<>>
    /\ given = <<>>
    /\ log = <<>>
    /\ builds = 0
    /\ hpc = "idle"

\* No full_search call is running.
IdleFS ==
    /\ fsucc = <<>>
    /\ shared = FALSE
    /\ fpending = <<>>
    /\ fvisited = {}
    /\ fpc = "idle"
    /\ fcalls = <<>>
    /\ fnext = 0

\* a_star_search(start, goal_func) after building its registers.
InitAS ==
    /\ IdleFS
    /\ IdleHost
    /\ Inputs
    /\ pending_nodes = <<ASNode(StartId, 0, 1, 0)>>
    /\ visited_nodes = {}
    /\ best_g_costs = [i \in {StartId} |-> 0]
    /\ apc = "loop"
    /\ result = <<>>
    /\ popped = <<>>
    /\ expanded = <<>>
    /\ nextObj = 2

\* One iteration of the while loop.
AStarIteration ==
    /\ apc = "loop"
    /\ pending_nodes # <<>>
    /\ LET pop == HeapPop(pending_nodes)
           q_node == pop[1]
           heap == pop[2]
           succs == GetSuccessors(q_node, nextObj)
           reg == RegisterSuccessors(succs, 1, heap, best_g_costs, visited_nodes)
       IN  /\ popped' = Append(popped, q_node)
           /\ IF GoalTest(q_node)
              THEN /\ apc' = "returned"
                   /\ result' = q_node
                   /\ pending_nodes' = heap
                   /\ UNCHANGED <<visited_nodes, best_g_costs, expanded, nextObj>>
              ELSE IF SetContains(visited_nodes, q_node)
              THEN /\ pending_nodes' = heap
                   /\ UNCHANGED <<apc, result, visited_nodes, best_g_costs,
                                  expanded, nextObj>>
              ELSE /\ pending_nodes' = reg[1]
                   /\ best_g_costs' = reg[2]
                   /\ visited_nodes' = SetAdd(visited_nodes, q_node)
                   /\ expanded' = Append(expanded, q_node.id)
                   /\ nextObj' = nextObj + Len(succs)
                   /\ UNCHANGED <<apc, result>>
    /\ UNCHANGED <<cost, hval, goals, goalFrom, succOrder>>
    /\ UNCHANGED <<fsVars, hostVars>>

\* Mutant of AStarExhausted: the function ends without raising (None).
AStarReturnsNone ==
    /\ apc = "loop"
    /\ pending_nodes = <<>>
    /\ apc' = "returned"
    /\ UNCHANGED <<cost, hval, goals, goalFrom, succOrder, pending_nodes,
                   visited_nodes, best_g_costs, result, popped, expanded, nextObj>>
    /\ UNCHANGED <<fsVars, hostVars>>

\* The while loop ends: raise ValueError.
AStarExhausted ==
    /\ apc = "loop"
    /\ pending_nodes = <<>>
    /\ apc' = "raised"
    /\ UNCHANGED <<cost, hval, goals, goalFrom, succOrder, pending_nodes,
                   visited_nodes, best_g_costs, result, popped, expanded, nextObj>>
    /\ UNCHANGED <<fsVars, hostVars>>

\* ------------------------------------------------------ full_search
\* The states (node ids) of the graphs searched by full_search.
FIds == {"S", "B", "C", "D"}
\* The order in which the node objects of one get_successors call are made.
FIdOrder == <<"S", "B", "C", "D">>
\* The state of the start node.
FStartId == "S"
\* The steps a graph may have: the diamond S->{B,C}->D, the step S->D, the
\* cycle S->B->S and the loop D->D.
FEdgeSlots == {<<"S", "B">>, <<"S", "C">>, <<"S", "D">>, <<"B", "D">>,
               <<"C", "D">>, <<"B", "S">>, <<"D", "D">>}

\* The FNode object o of state i.
FNode(i, o) == [id |-> i, obj |-> o]

\* The position of state i in FIdOrder.
FPos(i) == CHOOSE k \in 1..Len(FIdOrder) : FIdOrder[k] = i

\* The last number the model gives a node object.
LastObj == Len(FIdOrder) + MaxObj

\* The obj field of the k-th node object created.
ObjNumber(k) == IF k <= LastObj THEN k ELSE 0

\* q.get_successors(): a set with one node object per successor state, the
\* state's one object when the class shares them, else new objects.
FGetSuccessors(q, firstObj) ==
    LET ids == fsucc[q.id]
        rank(i) == Cardinality({j \in ids : FPos(j) < FPos(i)})
    IN  {FNode(i, IF shared THEN FPos(i) ELSE ObjNumber(firstObj + rank(i))) :
            i \in ids}

\* Mutant of Unvisited: visited_nodes - q_node.get_successors()
UnvisitedReversed(succs, visited) == {v \in visited : ~SetContains(succs, v)}

\* q_node.get_successors() - visited_nodes
Unvisited(succs, visited) == {s \in succs : ~SetContains(visited, s)}

\* The orders in which iterating the set s can yield its elements.
Orders(s) ==
    {o \in [1..Cardinality(s) -> s] :
        \A i, j \in 1..Cardinality(s) : o[i] = o[j] => i = j}

\* Mutant of Extend: only the first successor iterated is appended.
ExtendFirstOnly(pending, o) ==
    pending \o (IF o = <<>> THEN <<>> ELSE <<o[1]>>)

\* Mutant of Extend: the pending list replaced by the successors.
ExtendReplaces(pending, o) == o

\* pending_nodes.extend(s_nodes), s_nodes iterated in the order o
Extend(pending, o) == pending \o o

\* No a_star_search call is running.
IdleAS ==
    /\ cost = <<>>
    /\ hval = <<>>
    /\ goals = {}
    /\ goalFrom = 0
    /\ succOrder = <<>>
    /\ pending_nodes = <<>>
    /\ visited_nodes = {}
    /\ best_g_costs = <<>>
    /\ apc = "idle"
    /\ result = <<>>
    /\ popped = <<>>
    /\ expanded = <<>>
    /\ nextObj = 0

\* full_search(start) after building its registers.
InitFS ==
    /\ IdleAS
    /\ IdleHost
    /\ \E E \in SUBSET FEdgeSlots :
          fsucc = [u \in FIds |-> {v \in FIds : <<u, v>> \in E}]
    /\ shared \in BOOLEAN
    /\ fpending = <<FNode(FStartId, FPos(FStartId))>>
    /\ fvisited = {}
    /\ fpc = "loop"
    /\ fcalls = [i \in FIds |-> 0]
    /\ fnext = Len(FIdOrder) + 1

\* The node objects the next iteration's get_successors call creates.
FNextSuccessors == FGetSuccessors(fpending[Len(fpending)], fnext)

\* The model follows a run while its pending list holds at most MaxPending
\* nodes.
WithinModel ==
    Len(fpending) - 1 + Cardinality(Unvisited(FNextSuccessors, fvisited))
        <= MaxPending

\* The body of the while loop, on the registers of the call.
FullLoopBody ==
    /\ fpc = "loop"
    /\ fpending # <<>>
    /\ WithinModel
    /\ LET q_node == fpending[Len(fpending)]
           rest == SubSeq(fpending, 1, Len(fpending) - 1)
           succs == FNextSuccessors
           s_nodes == Unvisited(succs, fvisited)
       IN  /\ \E o \in Orders(s_nodes) : fpending' = Extend(rest, o)
           /\ fvisited' = SetAdd(fvisited, q_node)
           /\ fcalls' = [fcalls EXCEPT ![q_node.id] = Min(@ + 1, 2)]
           /\ fnext' = IF shared THEN fnext
                        ELSE Min(fnext + Cardinality(succs), LastObj + 1)
    /\ UNCHANGED <<fsucc, shared, fpc>>

\* Mutant of FullIteration: visited_nodes is one set for every call, so
\* visited_nodes.add(q_node) also lands in the set a_star_search reads.
FullIterationSharedVisited ==
    /\ FullLoopBody
    /\ visited_nodes' = visited_nodes \cup {fpending[Len(fpending)]}
    /\ UNCHANGED <<cost, hval, goals, goalFrom, succOrder, pending_nodes, best_g_costs,
                   apc, result, popped, expanded, nextObj>>
    /\ UNCHANGED hostVars

\* One iteration of the while loop: its registers are local to the call.
FullIteration ==
    /\ FullLoopBody
    /\ UNCHANGED <<asVars, hostVars>>

\* The while loop ends: return visited_nodes.
FullReturn ==
    /\ fpc = "loop"
    /\ fpending = <<>>
    /\ fpc' = "done"
    /\ UNCHANGED <<fsucc, shared, fpending, fvisited, fcalls, fnext>>
    /\ UNCHANGED <<asVars, hostVars>>

\* The loop goes on with a longer pending list than the model follows.
FullOutgrows ==
    /\ fpc = "loop"
    /\ fpending # <<>>
    /\ ~WithinModel
    /\ fpc' = "beyond"
    /\ UNCHANGED <<fsucc, shared, fpending, fvisited, fcalls, fnext>>
    /\ UNCHANGED <<asVars, hostVars>>

\* ------------------------------------------- paths of the graph
\* A cost no path of the model's graphs reaches: no path.
Far == Cardinality(Ids) * MaxCost + 1

RECURSIVE MinOver(_)
\* The least number of a finite non-empty set of numbers.
MinOver(s) ==
    LET x == CHOOSE y \in s : TRUE
    IN  IF s = {x} THEN x ELSE Min(x, MinOver(s \ {x}))

RECURSIVE Dist(_, _, _)
\* The least cost of a path of at most k steps from state u to state v.
Dist(u, v, k) ==
    IF u = v THEN 0
    ELSE IF k = 0 THEN Far
    ELSE MinOver({Far} \cup
                 {Min(Far, cost[e] + Dist(e[2], v, k - 1)) :
                     e \in {d \in DOMAIN cost : d[1] = u}})

\* The least cost of a path from state u to state v (Far: there is none).
PathCost(u, v) == Dist(u, v, Cardinality(Ids))

\* The states reachable from the start state.
ReachIds == {v \in Ids : PathCost(StartId, v) < Far}

\* ------------------------------------------------- the specifications
\* One call of a_star_search or one call of full_search.
Init == InitAS \/ InitFS

Next ==
    \/ AStarIteration
    \/ AStarExhausted
    \/ FullIteration
    \/ FullReturn
    \/ FullOutgrows

Spec == Init /\ [][Next]_vars

\* The calls are synchronous: a call that can take a step takes it.
\* One call of a_star_search on a graph where no state satisfying goal_func
\* is reachable from the start.
InitNoGoal == InitAS /\ ReachIds \cap goals = {}

NextAS == AStarIteration \/ AStarExhausted

FairNoGoal == InitNoGoal /\ [][NextAS]_vars /\ WF_vars(NextAS)

\* One call of a_star_search whose goal_func looks at the g of the node
\* too: it holds for the nodes of a goal state with g >= goalFrom.
InitByCost ==
    /\ IdleFS
    /\ IdleHost
    /\ \E E \in SUBSET EdgeSlots : cost \in [E -> 0..MaxCost]
    /\ hval \in [Ids -> 0..MaxH]
    /\ goals \in SUBSET Ids
    /\ goalFrom \in 1..MaxCost
    /\ succOrder = IdOrder
    /\ pending_nodes = <<ASNode(StartId, 0, 1, 0)>>
    /\ visited_nodes = {}
    /\ best_g_costs = [i \in {StartId} |-> 0]
    /\ apc = "loop"
    /\ result = <<>>
    /\ popped = <<>>
    /\ expanded = <<>>
    /\ nextObj = 2

GoalByCost == InitByCost /\ [][NextAS]_vars

\* One call of full_search.
NextFS == FullIteration \/ FullReturn \/ FullOutgrows

FairFS == InitFS /\ [][NextFS]_vars /\ WF_vars(NextFS)

\* ------------------------------------------- a_star_search on a grid
\* The coordinates of the cells of the 5x5 grid.
GridCoords == 0..4

\* The cells of the grid: the states of the grid's node class.
GridCells == GridCoords \X GridCoords

\* The cell of the start node.
GridStart == <<0, 0>>

\* The cell (4,4) of the goal predicate x == 4 and y == 4.
GridGoal == <<4, 4>>

\* The absolute value of a number.
Abs(n) == IF n < 0 THEN -n ELSE n

\* Cell2D.distance: the Manhattan distance between the cells a and b.
Distance(a, b) == Abs(b[1] - a[1]) + Abs(b[2] - a[2])

\* The moves of the grid: from a cell to each of its 4 neighbours.
GridMoves == {e \in GridCells \X GridCells : Distance(e[1], e[2]) = 1}

\* The k-th cell when the cells are enumerated along rows (byRow) or along
\* columns, each coordinate upwards or downwards (down1, down2).
CellAt(k, byRow, down1, down2) ==
    LET n == Cardinality(GridCoords)
        a == IF down1 THEN n - 1 - ((k - 1) \div n) ELSE (k - 1) \div n
        b == IF down2 THEN n - 1 - ((k - 1) % n) ELSE (k - 1) % n
    IN  IF byRow THEN <<a, b>> ELSE <<b, a>>

\* The orders in which the grid's get_successors may enumerate the
\* neighbours of a cell.
GridOrders ==
    {[k \in 1..Cardinality(GridCells) |-> CellAt(k, byRow, down1, down2)] :
        byRow \in BOOLEAN, down1 \in BOOLEAN, down2 \in BOOLEAN}

\* The cells a goal predicate x == a and y == b may ask for: the cells of the
\* grid, and cells one step outside it, which no node reaches.
GridTargets ==
    (0..Cardinality(GridCoords)) \X (0..Cardinality(GridCoords))

\* a_star_search(start, goal_func) on the grid after building its registers:
\* unit-cost moves, h the Manhattan distance to the cell goal_func asks for.
InitGrid ==
    /\ IdleFS
    /\ IdleHost
    /\ cost = [e \in GridMoves |-> 1]
    /\ \E t \in GridTargets :
          /\ hval = [c \in GridCells |-> Distance(c, t)]
          /\ goals = {t}
          /\ goalFrom = 0
    /\ succOrder \in GridOrders
    /\ pending_nodes = <<ASNode(GridStart, 0, 1, 0)>>
    /\ visited_nodes = {}
    /\ best_g_costs = [i \in {GridStart} |-> 0]
    /\ apc = "loop"
    /\ result = <<>>
    /\ popped = <<>>
    /\ expanded = <<>>
    /\ nextObj = 2

\* One call of a_star_search on the grid.
GridSpec == InitGrid /\ [][NextAS]_vars

\* ------------------------------------------- two calls interleaved
\* A call of a_star_search and a call of full_search, on start nodes of
\* their own, running in two threads: each step is one loop iteration of
\* either call.  The graphs are those of unit-cost steps, with h = 0 but at
\* the start (a_star_search), and those of the steps S->B, S->C, B->D and
\* B->S (full_search).
InitBoth ==
    /\ IdleHost
    /\ \E E \in SUBSET EdgeSlots : cost = [e \in E |-> 1]
    /\ hval \in [Ids -> 0..MaxH]
    /\ hval["B"] = 0
    /\ hval["C"] = 0
    /\ goals = {"C"}
    /\ goalFrom = 0
    /\ succOrder = IdOrder
    /\ pending_nodes = <<ASNode(StartId, 0, 1, 0)>>
    /\ visited_nodes = {}
    /\ best_g_costs = [i \in {StartId} |-> 0]
    /\ apc = "loop"
    /\ result = <<>>
    /\ popped = <<>>
    /\ expanded = <<>>
    /\ nextObj = 2
    /\ \E E \in SUBSET {<<"S", "B">>, <<"S", "C">>, <<"B", "D">>,
                         <<"B", "S">>} :
          fsucc = [u \in FIds |-> {v \in FIds : <<u, v>> \in E}]
    /\ shared \in BOOLEAN
    /\ fpending = <<FNode(FStartId, FPos(FStartId))>>
    /\ fvisited = {}
    /\ fpc = "loop"
    /\ fcalls = [i \in FIds |-> 0]
    /\ fnext = Len(FIdOrder) + 1

NextBoth == NextAS \/ NextFS

Concurrent == InitBoth /\ [][NextBoth]_vars

RECURSIVE AStarLoop(_, _, _, _, _)
\* The while loop of a_star_search run from the given registers for at most
\* fuel iterations: how it ends ("loop": not yet) and the node returned.
AStarLoop(heap, visited, best, next, fuel) ==
    IF heap = <<>> THEN [pc |-> "raised", result |-> <<>>]
    ELSE IF fuel = 0 THEN [pc |-> "loop", result |-> <<>>]
    ELSE LET pop == HeapPop(heap)
             q_node == pop[1]
             succs == GetSuccessors(q_node, next)
             reg == RegisterSuccessors(succs, 1, pop[2], best, visited)
         IN  IF GoalTest(q_node)
             THEN [pc |-> "returned", result |-> q_node]
             ELSE IF SetContains(visited, q_node)
             THEN AStarLoop(pop[2], visited, best, next, fuel - 1)
             ELSE AStarLoop(reg[1], SetAdd(visited, q_node), reg[2],
                            next + Len(succs), fuel - 1)

\* a_star_search(start, goal_func) run alone, from call to end.
AStarAlone ==
    AStarLoop(<<ASNode(StartId, 0, 1, 0)>>, {}, [i \in {StartId} |-> 0], 2,
              Cardinality(Ids) * (Cardinality(Ids) * MaxCost + 1))

\* --------------------------------------------------- PathsManager
\* The text of a path is kept in pieces: a piece is literal text or the
\* decimal digits of a number.  A part of a path (the name of one directory
\* or file) is a sequence of pieces, and a path is a sequence of parts.
Lit(s) == [text |-> s, digits |-> <<>>]

Digits(d) == [text |-> "", digits |-> d]

RECURSIVE Str(_)
\* str(n) for a number n >= 0: its decimal digits.
Str(n) == IF n < 10 THEN <<n>> ELSE Str(n \div 10) \o <<n % 10>>

RECURSIVE ZFill(_, _)
\* str.zfill(width) on the digits d
ZFill(d, width) == IF Len(d) < width THEN ZFill(<<0>> \o d, width) ELSE d

\* Mutant of DayZ: the day without leading zeros.
DayZUnpadded(d) == Str(d)

\* PathsManager.day_z
DayZ(d) == ZFill(Str(d), 2)

\* PathsManager._build_replace_map: the marks and their values, in order.
BuildReplaceMap(y, d) ==
    << <<"&@year@&", Str(y)>>, <<"&@day@&", Str(d)>>, <<"&@day_z@&", DayZ(d)>> >>

\* template_str.replace(mark, value)
Replace(path, mark, value) ==
    [i \in 1..Len(path) |->
        [j \in 1..Len(path[i]) |->
            IF path[i][j] = Lit(mark) THEN Digits(value) ELSE path[i][j]]]

RECURSIVE ReplaceMarksFrom(_, _, _)
\* The loop of _replace_marks over the entries map[k..].
ReplaceMarksFrom(path, map, k) ==
    IF k > Len(map) THEN path
    ELSE ReplaceMarksFrom(Replace(path, map[k][1], map[k][2]), map, k + 1)

\* PathsManager._replace_marks
ReplaceMarks(path, y, d) == ReplaceMarksFrom(path, BuildReplaceMap(y, d), 1)

\* TEMPLATES_PATH
TemplatesPath == << <<Lit("build_templates")>> >>

\* build_base_path
BasePath == << <<Lit("Z:")>> >>

\* The template files of the package, relative to TEMPLATES_PATH.
TemplateTree ==
    LET project == <<Lit("AdventCode"), Lit("&@year@&")>>
        script == <<project, <<Lit("src")>>, <<Lit("aoc"), Lit("&@year@&")>>,
                    <<Lit("day_"), Lit("&@day_z@&")>>>>
        tests == <<project, <<Lit("tests")>>,
                   <<Lit("tests_day_"), Lit("&@day_z@&")>>>>
        file(n) == <<Lit(n), Lit(".template")>>
    IN  {Append(script, file(n)) :
            n \in {"puzzle_input.txt", "solution.py", "tools.py"}}
        \cup {Append(tests, file(n)) :
                n \in {"__init__.py", "tests_example.py", "tests_solution.py"}}

\* PathsManager._explore_template_tree
ExploreTemplateTree == {TemplatesPath \o t : t \in TemplateTree}

\* Path.name
Name(path) == path[Len(path)]

\* Path.with_suffix(""): the name without its last suffix.
WithoutSuffix(path) ==
    LET name == Name(path)
    IN  IF Len(name) > 1
        THEN Append(SubSeq(path, 1, Len(path) - 1),
                    SubSeq(name, 1, Len(name) - 1))
        ELSE path

\* Path.relative_to(TEMPLATES_PATH)
RelativeToTemplates(path) == SubSeq(path, Len(TemplatesPath) + 1, Len(path))

\* {path.name: path for path in paths}: one entry per name.
MapByName(paths) ==
    [n \in {Name(q) : q \in paths} |-> CHOOSE q \in paths : Name(q) = n]

\* PathsManager._build_file_paths: the new _files_map.
BuildFilePaths(y, d) ==
    MapByName({BasePath \o RelativeToTemplates(
                   WithoutSuffix(ReplaceMarks(t, y, d))) :
               t \in ExploreTemplateTree})

\* PathsManager._build_templates: the new _templates_map.
BuildTemplates == MapByName(ExploreTemplateTree)

\* The years and days the model's callers use.
Years == {2022, 2023}

Days == {1, 9, 10, 25}

\* PathsManager(build_base_path, year) and
\* PathsManager(build_base_path, year, day)
InitPaths ==
    /\ IdleAS
    /\ IdleFS
    /\ IdleScrap
    /\ IdleTools
    /\ \E y \in Years, hasDay \in BOOLEAN, d \in Days :
          /\ given = [year |-> y, hasDay |-> hasDay,
                      day |-> IF hasDay THEN d ELSE 0]
          /\ year = y
          /\ day = (IF hasDay THEN d ELSE 1)
    /\ files_map = BuildFilePaths(year, day)
    /\ templates_map = BuildTemplates
    /\ log = <<>>
    /\ builds = 1
    /\ hpc = "ready"

\* Mutant of SetDay: the day is stored but the file paths are not rebuilt.
SetDayKeepsPaths(value) ==
    /\ hpc = "ready"
    /\ Len(log) < MaxAssignments
    /\ day' = value
    /\ log' = Append(log, [attr |-> "day", value |-> value])
    /\ UNCHANGED <<year, files_map, templates_map, given, builds, hpc>>
    /\ UNCHANGED <<asVars, fsVars, scVars, toolVars>>

\* manager.day = value
SetDay(value) ==
    /\ hpc = "ready"
    /\ Len(log) < MaxAssignments
    /\ day' = value
    /\ files_map' = BuildFilePaths(year, value)
    /\ builds' = builds + 1
    /\ log' = Append(log, [attr |-> "day", value |-> value])
    /\ UNCHANGED <<year, templates_map, given, hpc>>
    /\ UNCHANGED <<asVars, fsVars, scVars, toolVars>>

\* manager.year = value
SetYear(value) ==
    /\ hpc = "ready"
    /\ Len(log) < MaxAssignments
    /\ year' = value
    /\ files_map' = BuildFilePaths(value, day)
    /\ builds' = builds + 1
    /\ log' = Append(log, [attr |-> "year", value |-> value])
    /\ UNCHANGED <<day, templates_map, given, hpc>>
    /\ UNCHANGED <<asVars, fsVars, scVars, toolVars>>

NextPaths ==
    \/ \E v \in Years : SetYear(v)
    \/ \E v \in Days : SetDay(v)

\* A PathsManager and the assignments of its callers.
PathsSpec == InitPaths /\ [][NextPaths]_vars

\* -------------------------------------------------- AdventScrapper
AOC_BAD_LOGIN_CODE == 500

\* A datetime, as <<year, month, day, t>>; t is 0 at midnight and 1 at any
\* later time of that day.
DtLeq(a, b) ==
    \/ a[1] < b[1]
    \/ a[1] = b[1] /\ a[2] < b[2]
    \/ a[1] = b[1] /\ a[2] = b[2] /\ a[3] < b[3]
    \/ a[1] = b[1] /\ a[2] = b[2] /\ a[3] = b[3] /\ a[4] <= b[4]

\* datetime.datetime(year=self.paths.year, month=12, day=self.paths.day)
TargetDt(y, d) == <<y, 12, d, 0>>

\* How a method ends: it returns value (raised = "") or raises the
\* exception named by raised; read, requested and parsed tell whether it
\* called _read_secrets, _get_page_content and parse_func.
Returns(v, rd, rq, ps) ==
    [raised |-> "", value |-> v, read |-> rd, requested |-> rq,
     parsed |-> ps]

Raises(e, rd, rq, ps) ==
    [raised |-> e, value |-> {}, read |-> rd, requested |-> rq,
     parsed |-> ps]

\* AdventScrapper._read_secrets
ReadSecrets(file) == file.lines

\* AdventScrapper._build_credentials; a map is the set of its items.
BuildCredentials(use_log_in, has_secrets, file) ==
    IF ~use_log_in
    THEN Returns({}, FALSE, FALSE, FALSE)
    ELSE IF ~has_secrets
    THEN Raises("AttributeError", FALSE, FALSE, FALSE)
    ELSE IF ~file.exists
    THEN Raises("LogInError", FALSE, FALSE, FALSE)
    ELSE LET secrets_data == ReadSecrets(file)
         IN  IF Len(secrets_data) = 0
             THEN Raises("LogInError", TRUE, FALSE, FALSE)
             ELSE IF Len(secrets_data) > 1
             THEN Raises("LogInError", TRUE, FALSE, FALSE)
             ELSE Returns({<<"session", secrets_data[1]>>},
                          TRUE, FALSE, FALSE)

\* AdventScrapper._check_valid_day: TRUE when it raises ScrapError.
CheckValidDayRaises(y, d, now_dt) == ~DtLeq(TargetDt(y, d), now_dt)

\* Mutant of GetPageContent: the bad-login status is handled as any other
\* status that is not 200.
GetPageContentNoBadLogin(code, rd) ==
    IF code # 200
    THEN Raises("ScrapError", rd, TRUE, FALSE)
    ELSE Returns({"content"}, rd, TRUE, FALSE)

\* AdventScrapper._get_page_content, the response having status code.
GetPageContent(code, rd) ==
    IF code = AOC_BAD_LOGIN_CODE
    THEN Raises("LogInError", rd, TRUE, FALSE)
    ELSE IF code # 200
    THEN Raises("ScrapError", rd, TRUE, FALSE)
    ELSE Returns({"content"}, rd, TRUE, FALSE)

\* parse_func(web_content): it returns the parsed content or raises
\* ScrapError, as _parse_web_puzzle_name does on a page without title.
ParseFunc(parse, rd) ==
    IF parse = "ScrapError"
    THEN Raises("ScrapError", rd, TRUE, TRUE)
    ELSE Returns({"parsed"}, rd, TRUE, TRUE)

\* The try block of AdventScrapper._scrap.
ScrapTry(in, y, d, has_secrets) ==
    LET credentials == BuildCredentials(in.use_log_in, has_secrets, in.file)
    IN  IF credentials.raised # ""
        THEN credentials
        ELSE IF CheckValidDayRaises(y, d, in.now)
        THEN Raises("ScrapError", credentials.read, FALSE, FALSE)
        ELSE LET web_content == GetPageContent(in.status, credentials.read)
             IN  IF web_content.raised # ""
                 THEN web_content
                 ELSE ParseFunc(in.parse, credentials.read)

\* Mutant of Scrap: no except clause.
ScrapUncaught(in, y, d, has_secrets) == ScrapTry(in, y, d, has_secrets)

\* AdventScrapper._scrap: {"None"} stands for the None it returns.
Scrap(in, y, d, has_secrets) ==
    LET tried == ScrapTry(in, y, d, has_secrets)
    IN  IF tried.raised = "ScrapError"
        THEN Returns({"None"}, tried.read, tried.requested, tried.parsed)
        ELSE tried

\* The current time met by a call.
Nows == {<<2022, 12, 1, 0>>, <<2023, 11, 30, 1>>, <<2023, 12, 25, 1>>}

\* The secrets file met by a call: missing, empty, one line, two lines.
SecretsFiles ==
    {[exists |-> FALSE, lines |-> <<>>],
     [exists |-> TRUE, lines |-> <<>>],
     [exists |-> TRUE, lines |-> <<"id">>],
     [exists |-> TRUE, lines |-> <<"id", "more">>]}

\* The status code of the response met by a call.
Statuses == {200, 404, AOC_BAD_LOGIN_CODE}

\* What parse_func does with the content.
Parses == {"returns", "ScrapError"}

\* The days handed to scrap_puzzle_name and scrap_puzzle_input.
ScrapDays == {1, 25}

\* What a _scrap call is given and meets. Without log-in the code does not
\* touch the secrets file, and one file stands for all.
Meets(use_log_in, parses) ==
    [use_log_in : {use_log_in}, now : Nows,
     file : IF use_log_in THEN SecretsFiles
            ELSE {[exists |-> FALSE, lines |-> <<>>]},
     status : Statuses, parse : parses]

\* AdventScrapper(paths), paths being a PathsManager (path_secrets FALSE)
\* or an object that also has the path_secrets attribute, as the one
\* the tests set up.
InitScrap ==
    /\ IdleAS
    /\ IdleFS
    /\ IdleTools
    /\ \E y \in Years :
          /\ given = [year |-> y, hasDay |-> FALSE, day |-> 0]
          /\ year = y
          /\ day = 1
    /\ files_map = BuildFilePaths(year, day)
    /\ templates_map = BuildTemplates
    /\ log = <<>>
    /\ builds = 1
    /\ hpc = "ready"
    /\ path_secrets \in BOOLEAN
    /\ sop = "idle"
    /\ sin = <<>>
    /\ sout = <<>>

\* scrapper._scrap(target_url, parse_func, use_log_in)
ScrapCall ==
    /\ hpc = "ready"
    /\ sop' = "_scrap"
    /\ \E b \in BOOLEAN : \E in \in Meets(b, Parses) :
          /\ sin' = in
          /\ sout' = Scrap(in, year, day, path_secrets)
    /\ UNCHANGED <<pmVars, path_secrets>>
    /\ UNCHANGED <<asVars, fsVars, toolVars>>

\* scrapper._build_credentials(use_log_in)
BuildCredentialsCall ==
    /\ hpc = "ready"
    /\ sop' = "_build_credentials"
    /\ \E in \in [use_log_in : BOOLEAN, file : SecretsFiles] :
          /\ sin' = in
          /\ sout' = BuildCredentials(in.use_log_in, path_secrets, in.file)
    /\ UNCHANGED <<pmVars, path_secrets>>
    /\ UNCHANGED <<asVars, fsVars, toolVars>>

\* scrapper.scrap_puzzle_name(day)
ScrapPuzzleName(value) ==
    /\ hpc = "ready"
    /\ Len(log) < MaxAssignments
    /\ day' = value
    /\ files_map' = BuildFilePaths(year, value)
    /\ builds' = builds + 1
    /\ log' = Append(log, [attr |-> "day", value |-> value])
    /\ sop' = "scrap_puzzle_name"
    /\ \E in \in Meets(FALSE, Parses) :
          /\ sin' = in
          /\ sout' = Scrap(in, year, value, path_secrets)
    /\ UNCHANGED <<year, templates_map, given, hpc, path_secrets>>
    /\ UNCHANGED <<asVars, fsVars, toolVars>>

\* scrapper.scrap_puzzle_input(day); _parse_web_puzzle_input raises no
\* ScrapError.
ScrapPuzzleInput(value) ==
    /\ hpc = "ready"
    /\ Len(log) < MaxAssignments
    /\ day' = value
    /\ files_map' = BuildFilePaths(year, value)
    /\ builds' = builds + 1
    /\ log' = Append(log, [attr |-> "day", value |-> value])
    /\ sop' = "scrap_puzzle_input"
    /\ \E in \in Meets(TRUE, {"returns"}) :
          /\ sin' = in
          /\ sout' = Scrap(in, year, value, path_secrets)
    /\ UNCHANGED <<year, templates_map, given, hpc, path_secrets>>
    /\ UNCHANGED <<asVars, fsVars, toolVars>>

NextScrap ==
    \/ ScrapCall
    \/ BuildCredentialsCall
    \/ \E v \in ScrapDays : ScrapPuzzleName(v)
    \/ \E v \in ScrapDays : ScrapPuzzleInput(v)

\* An AdventScrapper and the calls of its callers.
ScrapSpec == InitScrap /\ [][NextScrap]_vars

\* --------------------------------------------------- AdventBuilder
\* The days of the builder's puzzle_names (range(1, len + 1)).
BuildDays == {1, 2}

\* The names a puzzle can have in puzzle_names.
PuzzleNames == {"Day n: -", "Day n: Name"}

\* The files build_templates prepares for a day, in the order it writes
\* them.
FileKinds == <<"puzzle_input.txt", "solution.py", "tests", "tools.py">>

\* The path of the file of kind k for a day.
FilePath(k, d) == <<k, d>>

\* The paths an AdventBuilder writes to.
BuildPaths == {FilePath(FileKinds[k], d) : k \in 1..Len(FileKinds), d \in BuildDays}

\* No file at a path.
Absent == <<>>

\* The lines _prepare_input, _prepare_solution, _prepare_tests and
\* _prepare_tools give for a day: the input file is empty, the others name
\* the puzzle of the day.
Prepare(k, d, puzzles) ==
    IF k = "puzzle_input.txt" THEN <<"">> ELSE <<k, puzzles[d]>>

\* Mutant of WriteFile: the file is opened for writing whether it exists or
\* not.
WriteFileAlways(files, file_path, lines) ==
    [q \in DOMAIN files |-> IF q = file_path THEN lines ELSE files[q]]

\* AdventBuilder._write_file: the file system afterwards.
WriteFile(files, file_path, lines) ==
    IF files[file_path] # Absent
    THEN files
    ELSE [q \in DOMAIN files |-> IF q = file_path THEN lines ELSE files[q]]

RECURSIVE BuildTemplatesFrom(_, _, _, _)
\* The _write_file calls of build_templates for the kinds FileKinds[k..].
BuildTemplatesFrom(files, d, puzzles, k) ==
    IF k > Len(FileKinds) THEN files
    ELSE BuildTemplatesFrom(
             WriteFile(files, FilePath(FileKinds[k], d),
                       Prepare(FileKinds[k], d, puzzles)),
             d, puzzles, k + 1)

\* AdventBuilder.build_templates(day): the file system afterwards.
BuildTemplatesOn(files, d, puzzles) == BuildTemplatesFrom(files, d, puzzles, 1)

RECURSIVE BuildAllFrom(_, _, _)
\* The loop of build_all_templates from day d on.
BuildAllFrom(files, d, puzzles) ==
    IF d > Len(puzzles) THEN files
    ELSE BuildAllFrom(BuildTemplatesOn(files, d, puzzles), d + 1, puzzles)

\* The history after a call that turned the file system into files: a path
\* gets the content of the first write made to it.
FirstWrites(files) ==
    [q \in DOMAIN fs |->
        IF written[q] = Absent /\ files[q] # fs[q] THEN files[q] ELSE written[q]]

\* AdventBuilder(year, puzzle_names, source_path, tests_path), on a file
\* system where any of the files may exist already.
InitBuild ==
    /\ IdleAS
    /\ IdleFS
    /\ IdleScrap
    /\ IdleCalendar
    /\ year = 0
    /\ day = 0
    /\ files_map = <<>>
    /\ templates_map = <<>>
    /\ given = <<>>
    /\ log = <<>>
    /\ builds = 0
    /\ hpc = "idle"
    /\ bpuzzles \in [1..Cardinality(BuildDays) -> PuzzleNames]
    /\ fs \in [BuildPaths -> {Absent, <<"foreign">>}]
    /\ written = [q \in BuildPaths |-> Absent]
    /\ bop = "__init__"

\* Another AdventBuilder on the same paths, with other puzzle names.
NewBuilder ==
    /\ bpuzzles # <<>>
    /\ \E names \in [1..Cardinality(BuildDays) -> PuzzleNames] :
          /\ names # bpuzzles
          /\ bpuzzles' = names
    /\ bop' = "__init__"
    /\ UNCHANGED <<fs, written>>
    /\ UNCHANGED <<asVars, fsVars, pmVars, scVars, acVars>>

\* builder.build_templates(day)
BuildTemplatesCall(d) ==
    /\ bpuzzles # <<>>
    /\ fs' = BuildTemplatesOn(fs, d, bpuzzles)
    /\ written' = FirstWrites(fs')
    /\ bop' = "build_templates"
    /\ UNCHANGED bpuzzles
    /\ UNCHANGED <<asVars, fsVars, pmVars, scVars, acVars>>

\* builder.build_all_templates()
BuildAllTemplatesCall ==
    /\ bpuzzles # <<>>
    /\ fs' = BuildAllFrom(fs, 1, bpuzzles)
    /\ written' = FirstWrites(fs')
    /\ bop' = "build_all_templates"
    /\ UNCHANGED bpuzzles
    /\ UNCHANGED <<asVars, fsVars, pmVars, scVars, acVars>>

NextBuild ==
    \/ NewBuilder
    \/ \E d \in BuildDays : BuildTemplatesCall(d)
    \/ BuildAllTemplatesCall

\* AdventBuilder objects and the calls of their callers.
BuildSpec == InitBuild /\ [][NextBuild]_vars

\* -------------------------------------------------- AdventCalendar
\* The days of the calendar table (RangeIndex(start=1, stop=26)).
CalendarDays == 1..25

\* The responses of the website to the request of a puzzle page: the status
\* code and, for a page that was served, what the search of its title as
\* "--- Day <day>: <name> ---" does.
Responses ==
    {r \in [status : Statuses, parse : Parses] :
        r.status # 200 => r.parse = "returns"}

\* The tables an AdventCalendar starts from: the names of the days of
\* ScrapDays may be missing, the others are known.
CalendarData ==
    {[d \in CalendarDays |-> IF d \in unknown THEN "-" ELSE "Known"] :
        unknown \in SUBSET ScrapDays}

\* self._data.loc[day, "Puzzle"] = name
SetName(names, d, name) ==
    [e \in DOMAIN names |-> IF e = d THEN name ELSE names[e]]

\* What a call of _update_missing_names did so far: the names stored, the
\* days assigned to paths.day, the days whose page was requested, and the
\* exception that ended it ("": none).
Update(names, assigned, requested, raised) ==
    [names |-> names, assigned |-> assigned, requested |-> requested,
     raised |-> raised]

RECURSIVE UpdateNamesFrom(_, _, _, _, _, _)
\* The loop of AdventCalendar._update_missing_names (manage/) from day d on;
\* names0 is self.puzzle_names as enumerated by the loop.
UpdateNamesFrom(d, names0, y, now, web, acc) ==
    IF d \notin DOMAIN names0 THEN acc
    ELSE IF names0[d] # "-"
    THEN UpdateNamesFrom(d + 1, names0, y, now, web, acc)
    ELSE LET in == [use_log_in |-> FALSE, now |-> now,
                    file |-> [exists |-> FALSE, lines |-> <<>>],
                    status |-> web[d].status, parse |-> web[d].parse]
             scrapped_name == Scrap(in, y, d, FALSE)
             assigned == Append(acc.assigned, d)
             requested == IF scrapped_name.requested
                          THEN Append(acc.requested, d)
                          ELSE acc.requested
         IN  IF scrapped_name.raised # ""
             THEN Update(acc.names, assigned, requested, scrapped_name.raised)
             ELSE UpdateNamesFrom(
                      d + 1, names0, y, now, web,
                      Update(IF scrapped_name.value # {"None"}
                             THEN SetName(acc.names, d, "Scrapped")
                             ELSE acc.names,
                             assigned, requested, ""))

\* AdventCalendar._get_page_content (project_calendar.py)
LegacyGetPageContent(response) ==
    IF response.status # 200 THEN "None" ELSE "content"

\* AdventCalendar._scrap_html_text (project_calendar.py): the text of the
\* title tag.
LegacyScrapHtmlText(web_content, response) ==
    IF web_content = "None" THEN "-"
    ELSE IF response.parse = "returns" THEN "--- Day d: Name ---"
    ELSE "other text"

\* AdventCalendar._parse_name (project_calendar.py): the name, or "" when
\* its assertion fails.
LegacyParseName(text) ==
    IF text = "None" THEN "-"
    ELSE IF text = "--- Day d: Name ---" THEN "Scrapped"
    ELSE ""

RECURSIVE LegacyUpdateNamesFrom(_, _, _, _, _, _)
\* The loop of AdventCalendar._update_missing_names (project_calendar.py)
\* from day d on.
LegacyUpdateNamesFrom(d, names0, y, now, web, acc) ==
    IF d \notin DOMAIN names0 THEN acc
    ELSE IF names0[d] # "-"
    THEN LegacyUpdateNamesFrom(d + 1, names0, y, now, web, acc)
    ELSE IF ~DtLeq(TargetDt(y, d), now)
    THEN LegacyUpdateNamesFrom(d + 1, names0, y, now, web, acc)
    ELSE LET web_content == LegacyGetPageContent(web[d])
             page_title == LegacyScrapHtmlText(web_content, web[d])
             name == LegacyParseName(page_title)
             assigned == Append(acc.assigned, d)
             requested == Append(acc.requested, d)
         IN  IF name = ""
             THEN Update(acc.names, assigned, requested, "AssertionError")
             ELSE LegacyUpdateNamesFrom(
                      d + 1, names0, y, now, web,
                      Update(SetName(acc.names, d, name), assigned,
                             requested, ""))

\* The last element of a sequence of days, 0 for the empty sequence.
LastOf(seq) == IF Len(seq) = 0 THEN 0 ELSE seq[Len(seq)]

\* The log entries of the assignments paths.day = d, d running over days.
DayAssignments(days) ==
    [i \in 1..Len(days) |-> [attr |-> "day", value |-> days[i]]]

\* A PathsManager of some year and the data of an AdventCalendar on it,
\* before __init__ calls _update_missing_names.
InitCalendar ==
    /\ IdleAS
    /\ IdleFS
    /\ IdleBuilder
    /\ \E y \in Years :
          /\ given = [year |-> y, hasDay |-> FALSE, day |-> 0]
          /\ year = y
          /\ day = 1
    /\ files_map = BuildFilePaths(year, day)
    /\ templates_map = BuildTemplates
    /\ log = <<>>
    /\ builds = 1
    /\ hpc = "ready"
    /\ path_secrets = FALSE
    /\ sop = "idle"
    /\ sin = <<>>
    /\ sout = <<>>
    /\ cnames \in CalendarData
    /\ crows = [d \in CalendarDays |-> <<"-", "-", "-", "-">>]
    /\ readme = <<>>
    /\ cop = "__init__"
    /\ cin = <<>>
    /\ cout = <<>>

\* The effects of a call of _update_missing_names that assigned the days
\* out.assigned to paths.day; last is the last of them.
UpdateDone(op, last, now, web, out) ==
    /\ last = LastOf(out.assigned)
    /\ day' = (IF last = 0 THEN day ELSE last)
    /\ builds' = builds + Len(out.assigned)
    /\ log' = log \o DayAssignments(out.assigned)
    /\ cnames' = out.names
    /\ cop' = op
    /\ cin' = [now |-> now, web |-> web]
    /\ cout' = [before |-> cnames, requested |-> out.requested,
                raised |-> out.raised]

\* calendar._update_missing_names() of manage/project_calendar.py
UpdateMissingNames ==
    /\ hpc = "ready"
    /\ cnames # <<>>
    /\ Len(log) < MaxAssignments
    /\ \E last \in ScrapDays \cup {0} :
          /\ files_map' = (IF last = 0 THEN files_map
                           ELSE BuildFilePaths(year, last))
          /\ \E now \in Nows, web \in [ScrapDays -> Responses] :
                UpdateDone("_update_missing_names", last, now, web,
                           UpdateNamesFrom(1, cnames, year, now, web,
                                           Update(cnames, <<>>, <<>>, "")))
    /\ UNCHANGED <<year, templates_map, given, hpc, crows, readme>>
    /\ UNCHANGED <<asVars, fsVars, scVars, abVars>>

\* calendar._update_missing_names() of project_calendar.py
LegacyUpdateMissingNames ==
    /\ hpc = "ready"
    /\ cnames # <<>>
    /\ Len(log) < MaxAssignments
    /\ \E last \in ScrapDays \cup {0} :
          /\ files_map' = (IF last = 0 THEN files_map
                           ELSE BuildFilePaths(year, last))
          /\ \E now \in Nows, web \in [ScrapDays -> Responses] :
                UpdateDone("_update_missing_names (legacy)", last, now, web,
                           LegacyUpdateNamesFrom(1, cnames, year, now, web,
                                                 Update(cnames, <<>>, <<>>, "")))
    /\ UNCHANGED <<year, templates_map, given, hpc, crows, readme>>
    /\ UNCHANGED <<asVars, fsVars, scVars, abVars>>

NextCalendar ==
    \/ UpdateMissingNames
    \/ LegacyUpdateMissingNames

\* An AdventCalendar and the calls of _update_missing_names.
CalendarSpec == InitCalendar /\ [][NextCalendar]_vars

\* ---------------------------------- write_to_readme, AdventSolver
\* The rows of the table in the order _add_hyper_links iterates them.
TableDays == [i \in CalendarDays |-> i]

\* x or "-"
OrDash(x) == IF x \in {"None", "0", ""} THEN "-" ELSE x

\* The Stars cell update_day computes.
Stars(s1, s2) ==
    IF OrDash(s1) # "-" /\ OrDash(s2) # "-" THEN ":star::star:"
    ELSE IF OrDash(s1) # "-" \/ OrDash(s2) # "-" THEN ":star:"
    ELSE "-"

\* AdventCalendar.update_day: the rows afterwards, a row being
\* <<Solution 1, Solution 2, Time, Stars>>.
UpdateDay(rows, d, s1, s2, timing) ==
    [e \in DOMAIN rows |->
        IF e = d THEN <<OrDash(s1), OrDash(s2), OrDash(timing), Stars(s1, s2)>>
        ELSE rows[e]]

\* What importing the day's solution module and calling its
\* compute_solution gives _import_solution_function: no module, the pair
\* of solutions that the template of AdventBuilder declares, or a function
\* returning that pair.
Modules == {"ModuleNotFoundError", "tuple", "callable"}

\* The solutions a solution function gives.
Solutions == {"None", "1"}

\* AdventSolver._solve_day after its assignment of paths.day: the triplet
\* it returns or the exception it raises.
SolveDay(module, s1, s2) ==
    IF module = "ModuleNotFoundError"
    THEN [raised |-> "", value |-> <<"None", "None", "0">>]
    ELSE IF module = "tuple"
    THEN [raised |-> "TypeError", value |-> <<>>]
    ELSE [raised |-> "", value |-> <<s1, s2, "t">>]

\* The days _add_hyper_links assigns to paths.day, in order: one per row.
HyperLinkDays(rows) == TableDays

\* The effects of write_to_readme on a calendar with the rows given:
\* _add_hyper_links assigns every row's day to paths.day and the table is
\* written to the README file; before are the days assigned to paths.day
\* by the caller.
WriteTable(before, rows) ==
    LET days == HyperLinkDays(rows)
        last == LastOf(before \o days)
    IN  /\ day' = (IF last = 0 THEN day ELSE last)
        /\ files_map' = (IF last = 0 THEN files_map
                         ELSE BuildFilePaths(year, last))
        /\ builds' = builds + Len(before) + Len(days)
        /\ log' = log \o DayAssignments(before \o days)
        /\ readme' = [year |-> year, names |-> cnames, rows |-> rows]

\* calendar.write_to_readme()
WriteToReadme ==
    /\ hpc = "ready"
    /\ cnames # <<>>
    /\ Len(log) < MaxAssignments
    /\ WriteTable(<<>>, crows)
    /\ cop' = "write_to_readme"
    /\ cin' = <<>>
    /\ cout' = [raised |-> ""]
    /\ UNCHANGED <<year, templates_map, given, hpc, cnames, crows>>
    /\ UNCHANGED <<asVars, fsVars, scVars, abVars>>

\* solver.register_day(day)
RegisterDay(value) ==
    /\ hpc = "ready"
    /\ cnames # <<>>
    /\ Len(log) < MaxAssignments
    /\ cop' = "register_day"
    /\ \E module \in Modules, s1 \in Solutions, s2 \in Solutions :
          LET solved == SolveDay(module, s1, s2)
          IN  /\ module # "callable" => s1 = "None" /\ s2 = "None"
              /\ cin' = [day |-> value, module |-> module, s1 |-> s1,
                         s2 |-> s2]
              /\ cout' = [raised |-> solved.raised]
              /\ IF solved.raised # ""
                 THEN /\ day' = value
                      /\ files_map' = BuildFilePaths(year, value)
                      /\ builds' = builds + 1
                      /\ log' = log \o DayAssignments(<<value>>)
                      /\ UNCHANGED <<crows, readme>>
                 ELSE /\ crows' = UpdateDay(crows, value, solved.value[1],
                                            solved.value[2], solved.value[3])
                      /\ WriteTable(<<value>>, crows')
    /\ UNCHANGED <<year, templates_map, given, hpc, cnames>>
    /\ UNCHANGED <<asVars, fsVars, scVars, abVars>>

NextSolver ==
    \/ \E v \in ScrapDays : ScrapPuzzleName(v)
    \/ \E v \in ScrapDays : ScrapPuzzleInput(v)
    \/ WriteToReadme
    \/ \E v \in ScrapDays : RegisterDay(v)

\* An AdventSolver, its AdventCalendar and an AdventScrapper on one
\* PathsManager.
SolverSpec == InitCalendar /\ [][NextSolver]_vars

\* ------------------------------------------- the graph, for the claims
\* Some state satisfying goal_func is reachable from the start state.
GoalReachable == ReachIds \cap goals # {}

\* The least cost of a path from state u to a state satisfying goal_func.
RemainingCost(u) == MinOver({Far} \cup {PathCost(u, t) : t \in goals})

\* h never overestimates the remaining cost of a reachable state.
Admissible == \A v \in ReachIds : hval[v] <= RemainingCost(v)

\* h(u) <= cost(u, v) + h(v) for every step out of a reachable state.
Consistent ==
    \A e \in DOMAIN cost : e[1] \in ReachIds => hval[e[1]] <= cost[e] + hval[e[2]]

\* The elements of a sequence.
Range(q) == {q[k] : k \in 1..Len(q)}

\* The states reachable from the start state of full_search in <= k steps.
RECURSIVE FReachWithin(_)
FReachWithin(k) ==
    IF k = 0 THEN {FStartId}
    ELSE LET r == FReachWithin(k - 1)
         IN  r \cup UNION {fsucc[u] : u \in r}

\* The states reachable from the start state of full_search.
FReach == FReachWithin(Cardinality(FIds))

\* The ids of a set of nodes.
IdsOf(nodes) == {n.id : n \in nodes}

\* ------------------------------------------------------------ claims

\* C1: with a heuristic that never overestimates and a reachable goal
\* state, a_star_search does not raise, and the node it returns has the
\* least cost g of a path from the start to a state satisfying goal_func.
C1_ReturnsMinimumCost ==
    (apc \in {"returned", "raised"} /\ Admissible /\ GoalReachable)
        => /\ apc = "returned"
           /\ result.g = RemainingCost(StartId)

\* C1 witness: a returned goal node of cost 1 while a costlier node of the
\* same state is still pending, under a heuristic that is not all zero.
C1_Witness ==
    /\ apc = "returned"
    /\ Admissible
    /\ result.g = 1
    /\ hval[StartId] > 0
    /\ \E k \in 1..Len(pending_nodes) :
          pending_nodes[k].id = result.id /\ pending_nodes[k].g > result.g

\* C2: when no reachable state satisfies goal_func, a_star_search never
\* returns and eventually raises the exhaustion error.
C2_RaisesWhenNoGoal == <>(apc = "raised") /\ [](apc # "returned")

\* C2 witness: the error raised after a search through a cycle A->B->A.
C2_Witness ==
    /\ apc = "raised"
    /\ <<"A", "B">> \in DOMAIN cost
    /\ <<"B", "A">> \in DOMAIN cost
    /\ Len(expanded) >= 3

\* C3: the ids of the set full_search returns are exactly the states
\* reachable from start in zero or more successor steps.
C3_ResultIsReachableSet == fpc = "done" => IdsOf(fvisited) = FReach

\* C3 witness: a search with new node objects on every call returns S, B
\* and D, D reached through B only, while C is not reachable from start.
C3_Witness ==
    /\ fpc = "done"
    /\ ~shared
    /\ "D" \notin fsucc["S"]
    /\ "C" \in FIds \ FReach
    /\ IdsOf(fvisited) = {"S", "B", "D"}

\* C4 as claimed: the returned set holds at most one node per id.
C4_OneNodePerId ==
    fpc = "done" => Cardinality(fvisited) = Cardinality(IdsOf(fvisited))

\* C5 as claimed: full_search returns (every graph of the model is finite).
\* A run whose pending list outgrows the model counts as returning.
C5_FullSearchReturns == <>(fpc = "done" \/ fpc = "beyond")

\* The graph has a cycle reachable from start.
FCyclic ==
    \/ {"S", "B"} \subseteq FReach /\ "S" \in fsucc["B"]
    \/ "D" \in FReach /\ "D" \in fsucc["D"]

\* The model abstracts a full_search run (a node of obj 0, a pending list
\* left behind) only when get_successors makes new node objects on every call
\* and the graph has a cycle reachable from start; a run that returned is
\* followed exactly.
ExactUnlessCyclic ==
    /\ (fpc = "beyond" \/ \E n \in fvisited \cup Range(fpending) : n.obj = 0)
          => ~shared /\ FCyclic
    /\ fpc = "done" => \A n \in fvisited : n.obj # 0

\* The node objects a search holds.
AllNodes ==
    visited_nodes \cup Range(pending_nodes) \cup Range(popped)
        \cup fvisited \cup Range(fpending)

\* C6 as claimed: two nodes are equal if and only if their ids are equal,
\* and equal nodes have the same hash.
C6_EqualIffSameId ==
    \A a, b \in AllNodes :
        /\ NodeEq(a, b) <=> a.id = b.id
        /\ NodeEq(a, b) => NodeHash(a) = NodeHash(b)

\* C7 as claimed: get_successors is called at most once per state id.
C7_ExpandedOncePerId ==
    \A i, j \in 1..Len(expanded) : expanded[i] = expanded[j] => i = j

\* C8 as claimed: the f values of the popped nodes never decrease.
C8_PoppedFNonDecreasing ==
    \A k \in 1..(Len(popped) - 1) : F(popped[k]) <= F(popped[k + 1])

\* C8 amended: under a consistent heuristic the f values of the popped
\* nodes, in pop order, never decrease.
C8_NonDecreasingIfConsistent ==
    (apc # "idle" /\ Consistent) => C8_PoppedFNonDecreasing

\* C8 witness: three pops with rising f under a consistent heuristic that is
\* not constant.
C8_Witness ==
    /\ apc # "idle"
    /\ Consistent
    /\ Len(popped) >= 3
    /\ F(popped[1]) < F(popped[2])
    /\ F(popped[2]) < F(popped[3])
    /\ hval[StartId] > hval[popped[3].id]

\* C9: a popped node satisfies goal_func only if it is the last node popped
\* and the search returned it; a returned node satisfies goal_func.
C9_ReturnsFirstGoalPopped ==
    /\ \A k \in 1..Len(popped) :
          popped[k].id \in goals
              => k = Len(popped) /\ apc = "returned" /\ result = popped[k]
    /\ apc = "returned"
          => Len(popped) > 0 /\ result = popped[Len(popped)] /\ result.id \in goals

\* C9 witness: a node returned at the third pop.
C9_Witness ==
    /\ apc = "returned"
    /\ Len(popped) = 3
    /\ result.id \in goals

\* The elements of the set s of nodes in the order of their states in
\* FIdOrder (the nodes of one get_successors call have different states).
InIdOrder(s) ==
    CHOOSE o \in Orders(s) :
        \A i, j \in 1..Cardinality(s) : i < j => FPos(o[i].id) < FPos(o[j].id)

RECURSIVE FullSearchInIdOrder(_, _, _, _)
\* The while loop of full_search run from the registers pending and visited
\* with every successor set iterated in the order of FIdOrder, for at most
\* fuel iterations: whether the loop has ended, and the visited set.
FullSearchInIdOrder(pending, visited, next, fuel) ==
    IF pending = <<>> THEN [ended |-> TRUE, nodes |-> visited]
    ELSE IF fuel = 0 THEN [ended |-> FALSE, nodes |-> visited]
    ELSE LET q_node == pending[Len(pending)]
             rest == SubSeq(pending, 1, Len(pending) - 1)
             succs == FGetSuccessors(q_node, next)
             s_nodes == Unvisited(succs, visited)
         IN  FullSearchInIdOrder(
                 Extend(rest, InIdOrder(s_nodes)),
                 SetAdd(visited, q_node),
                 IF shared THEN next
                 ELSE Min(next + Cardinality(succs), LastObj + 1),
                 fuel - 1)

\* full_search(start) with every successor set iterated in the order of
\* FIdOrder.
ResultInIdOrder ==
    FullSearchInIdOrder(<<FNode(FStartId, FPos(FStartId))>>, {},
                        Len(FIdOrder) + 1, 2 * LastObj)

\* C11: whatever the iteration order of the successor sets (and so whichever
\* pending node is removed next), the set full_search returns has the ids of
\* the set it returns when every successor set is iterated in one fixed
\* order.
C11_SameIdsInAnyOrder ==
    fpc = "done"
        => /\ ResultInIdOrder.ended
           /\ IdsOf(fvisited) = IdsOf(ResultInIdOrder.nodes)

\* C11 witness: a returned run on S -> {B, D}, B -> {D} that iterated S's
\* successors as D, B: it removed B before D and expanded D twice, where the
\* fixed order B, D expands D once.
C11_Witness ==
    /\ fpc = "done"
    /\ shared
    /\ fsucc["S"] = {"B", "D"}
    /\ fsucc["B"] = {"D"}
    /\ fsucc["D"] = {}
    /\ fcalls["D"] = 2
    /\ ResultInIdOrder.ended
    /\ IdsOf(fvisited) = {"S", "B", "D"}

\* The start node of a full_search call.
FStart == FNode(FStartId, FPos(FStartId))

\* C15: when get_successors of the start node returns the empty set,
\* full_search runs one iteration and returns exactly {start}: its registers
\* are those of the call, then an empty pending list with start visited, and
\* the run does not leave the loop otherwise than by returning.
C15_NoSuccessorsGivesStart ==
    (fpc # "idle" /\ fsucc[FStartId] = {})
        => \/ fpc = "loop" /\ fpending = <<FStart>> /\ fvisited = {}
           \/ fpc \in {"loop", "done"} /\ fpending = <<>> /\ fvisited = {FStart}

\* C15 witness: the call returned {start} although other states of the graph
\* have successors.
C15_Witness ==
    /\ fpc = "done"
    /\ fsucc[FStartId] = {}
    /\ fsucc["B"] = {"D", "S"}
    /\ fvisited = {FStart}
    /\ fcalls[FStartId] = 1

\* The most iterations a call can run: a node is pushed only with a g below
\* the best g registered for its id, the g of a pushed node is the cost of a
\* path without repeated states (below Far), and every iteration pops a node.
MostIterations == Cardinality(Ids) * Far

\* C14: under any heuristic h, one that overestimates included, a call on a
\* graph where a state satisfying goal_func is reachable terminates by
\* returning a node that satisfies goal_func.  While it loops the heap is not
\* empty, so the loop is never left for the exhaustion error; every iteration
\* pops one more node and at most MostIterations nodes are ever popped, so
\* the loop ends; it ends by returning a goal node.
C14_ReturnsGoalUnderAnyH ==
    /\ [](apc # "idle" /\ GoalReachable
            => /\ apc # "raised"
               /\ apc = "loop" => pending_nodes # <<>>
               /\ Len(popped) <= MostIterations
               /\ apc = "returned" => result.id \in goals)
    /\ [][apc = "loop" /\ pending_nodes # <<>>
            => Len(popped') = Len(popped) + 1]_vars

\* C14 witness: under a heuristic that overestimates, the call returned a
\* goal node whose g is more than the least cost of a path to a goal state.
C14_Witness ==
    /\ apc = "returned"
    /\ ~Admissible
    /\ result.id \in goals
    /\ result.g > RemainingCost(StartId)

\* C12: on the 5x5 grid of unit-cost cells with 4-neighbour moves, from
\* start (0,0) with the goal predicate x == 4 and y == 4 and the Manhattan
\* distance to (4,4) as h, a_star_search does not raise and the node it
\* returns is at (4,4) with g = 8; until then its heap is not empty.
C12_GridReturnsCost8 ==
    goals = {GridGoal}
        => /\ apc # "raised"
           /\ apc = "loop" => pending_nodes # <<>>
           /\ apc = "returned" => result.id = GridGoal /\ result.g = 8

\* C12 witness: the call returned the node of (4,4) after popping nodes of
\* more cells than a shortest path has.
C12_Witness ==
    /\ goals = {GridGoal}
    /\ apc = "returned"
    /\ result.g = 8
    /\ H(popped[1]) = 8
    /\ Len(expanded) > 8

RECURSIVE LastAssigned(_, _, _)
LastAssigned(attr, k, dflt) ==
    IF k = 0 THEN dflt
    ELSE IF log[k].attr = attr THEN log[k].value
    ELSE LastAssigned(attr, k - 1, dflt)

\* The day as two digits at least, zero-padded.
TwoDigits(d) == IF d < 10 THEN <<0, d>> ELSE Str(d)

\* The path has a piece made of the digits ds.
Carries(path, ds) ==
    \E i \in 1..Len(path) : \E j \in 1..Len(path[i]) : path[i][j] = Digits(ds)

\* C20: a PathsManager built without a day has day 1; after any assignments
\* to year and day the getters return the values last assigned (or those of
\* the constructor), _build_file_paths ran once at construction and once per
\* assignment, every path of file_paths carries the current year and the
\* current zero-padded day and no mark, and the templates map is the one
\* built at construction.
C20_PathsFollowAssignments ==
    hpc = "ready"
        => /\ (~given.hasDay /\ log = <<>>) => day = 1
           /\ year = LastAssigned("year", Len(log), given.year)
           /\ day = LastAssigned("day", Len(log),
                                 IF given.hasDay THEN given.day ELSE 1)
           /\ builds = 1 + Len(log)
           /\ DOMAIN files_map # {}
           /\ \A n \in DOMAIN files_map :
                 /\ Carries(files_map[n], Str(year))
                 /\ Carries(files_map[n], TwoDigits(day))
                 /\ \A m \in {"&@year@&", "&@day@&", "&@day_z@&"} :
                       \A i \in 1..Len(files_map[n]) :
                          \A j \in 1..Len(files_map[n][i]) :
                             files_map[n][i][j] # Lit(m)
           /\ templates_map = BuildTemplates

\* C20 witness: a manager built without a day, after the year was changed
\* and the day set to 25 and then to 9: its input file is
\* Z:/AdventCode<year>/src/aoc<year>/day_09/puzzle_input.txt.
C20_Witness ==
    /\ hpc = "ready"
    /\ ~given.hasDay
    /\ Len(log) = 3
    /\ log[1].attr = "year"
    /\ year # given.year
    /\ log[2].value = 25
    /\ day = 9
    /\ files_map[<<Lit("puzzle_input.txt")>>] =
          BasePath \o
          <<<<Lit("AdventCode"), Digits(Str(year))>>, <<Lit("src")>>,
            <<Lit("aoc"), Digits(Str(year))>>, <<Lit("day_"), Digits(<<0, 9>>)>>,
            <<Lit("puzzle_input.txt")>>>>

\* --------------------------------------------------- AdventScrapper claims
\* The methods that run _scrap.
ScrapOps == {"_scrap", "scrap_puzzle_name", "scrap_puzzle_input"}

\* The target date of the last call is later than the time it met.
FutureDate == ~DtLeq(TargetDt(year, day), sin.now)

\* C16: in every call of _scrap whose target date (December paths.day of
\* paths.year) is later than the current time, _get_page_content is not
\* called and the call returns None.
C16_FutureDateGivesNone ==
    sop \in ScrapOps /\ FutureDate =>
        /\ ~sout.requested
        /\ sout.raised = ""
        /\ sout.value = {"None"}

\* C17: _scrap turns every ScrapError into a None result: a response with a
\* status other than 200 and other than the bad-login code gives None
\* without a call of parse_func, a ScrapError raised by parse_func gives
\* None, and no ScrapError reaches the caller.
C17_ScrapErrorGivesNone ==
    sop \in ScrapOps =>
        /\ sout.raised # "ScrapError"
        /\ (sout.requested /\ sin.status \notin {200, AOC_BAD_LOGIN_CODE} =>
               sout.raised = "" /\ sout.value = {"None"} /\ ~sout.parsed)
        /\ (sout.parsed /\ sin.parse = "ScrapError" =>
               sout.raised = "" /\ sout.value = {"None"})

\* A call whose parse_func was called and raised ScrapError, and which
\* returned None.
C17_Witness ==
    /\ sop \in ScrapOps
    /\ sout.parsed
    /\ sin.parse = "ScrapError"
    /\ sout.raised = ""
    /\ sout.value = {"None"}

\* C18: when the response has the bad-login status code, _scrap raises
\* LogInError to its caller and parse_func is not called.
C18_BadLoginRaises ==
    sop \in ScrapOps /\ sout.requested /\ sin.status = AOC_BAD_LOGIN_CODE =>
        /\ sout.raised = "LogInError"
        /\ ~sout.parsed

\* A request was made, it was answered with the bad-login status, and the
\* call raised LogInError.
C18_Witness ==
    /\ sop \in ScrapOps
    /\ sout.requested
    /\ sin.status = AOC_BAD_LOGIN_CODE
    /\ sout.raised = "LogInError"
    /\ ~sout.parsed

\* C19: _build_credentials(use_log_in=True) returns {session: <line>}
\* exactly when the secrets file exists and holds exactly one line, and
\* raises LogInError when the file is missing, holds no line or holds more
\* than one line; with use_log_in=False it returns an empty map without
\* reading the secrets file.
C19_CredentialsFromSecrets ==
    sop = "_build_credentials" =>
        IF sin.use_log_in
        THEN IF sin.file.exists /\ Len(sin.file.lines) = 1
             THEN /\ sout.raised = ""
                  /\ sout.value = {<<"session", sin.file.lines[1]>>}
             ELSE sout.raised = "LogInError"
        ELSE /\ sout.raised = ""
             /\ sout.value = {}
             /\ ~sout.read

\* ------------------------------------------------ a_star_search, the loop
\* The node the next iteration pops.
Top == HeapPop(pending_nodes)[1]

\* The next iteration pops a node for which goal_func holds.
PopsGoal == apc = "loop" /\ pending_nodes # <<>> /\ GoalFunc(Top)

\* C24: goal_func is tested on every popped node before the visited check: a
\* popped node for which it holds is returned at once, without being
\* expanded, also when its id is already in the visited set.
C24_GoalTestedBeforeVisited ==
    [][PopsGoal =>
          /\ apc' = "returned"
          /\ result' = Top
          /\ expanded' = expanded
          /\ nextObj' = nextObj
          /\ visited_nodes' = visited_nodes]_vars

\* A node was returned whose id was already in the visited set.
C24_Witness ==
    /\ apc = "returned"
    /\ result.id \in IdsOf(visited_nodes)

\* ---------------------------------------------------- full_search, the loop
\* C27: in one full_search run no state is expanded twice: get_successors is
\* called at most once per id, also when the same state is a successor of
\* several nodes that are expanded before it.
C27_ExpandedOncePerState ==
    fpc # "idle" => \A i \in DOMAIN fcalls : fcalls[i] <= 1

\* The ids of the nodes in the pending list of full_search.
PendingIds == IdsOf(Range(fpending))

\* C28: loop invariant of full_search, nodes taken by id: every node in
\* the pending list or the visited set is reachable from start, and every
\* successor of a node in the visited set is in the visited set or in the
\* pending list; so with an empty pending list the visited set is closed
\* under the successor relation.
C28_LoopInvariant ==
    fpc # "idle" =>
        /\ PendingIds \cup IdsOf(fvisited) \subseteq FReach
        /\ \A v \in fvisited :
              fsucc[v.id] \subseteq IdsOf(fvisited) \cup PendingIds
        /\ fpending = <<>> =>
              \A v \in fvisited : fsucc[v.id] \subseteq IdsOf(fvisited)

\* In the middle of a run, a visited node has a successor that is pending
\* and not visited, and a visited node has a successor that is visited.
C28_Witness ==
    /\ fpc = "loop"
    /\ \E v \in fvisited : fsucc[v.id] \cap (PendingIds \ IdsOf(fvisited)) # {}
    /\ \E v \in fvisited : fsucc[v.id] \cap IdsOf(fvisited) # {}

\* -------------------------------------------- a_star_search, the registers
\* The node a_star_search starts from.
Start == ASNode(StartId, 0, 1, 0)

\* The nodes seen so far: the start node and the successors generated by
\* the expansions (the nodes of visited_nodes are the expanded ones).
Seen ==
    {Start} \cup UNION {Range(GetSuccessors(v, 0)) : v \in visited_nodes}

\* The g costs of the nodes seen so far for state i.
SeenG(i) == {n.g : n \in {m \in Seen : m.id = i}}

Expands ==
    /\ apc = "loop"
    /\ pending_nodes # <<>>
    /\ ~GoalFunc(Top)
    /\ ~SetContains(visited_nodes, Top)

\* The rule of C25: s is inserted and its g recorded if and only if s.id is
\* not in the visited set and s.g is strictly lower than the best cost
\* recorded for s.id, no recorded cost counting as +infinity.
InsertedAsClaimed(s, visited, best) ==
    /\ s.id \notin IdsOf(visited)
    /\ (s.id \notin DOMAIN best \/ s.g < best[s.id])

RECURSIVE RegisteredAsClaimed(_, _, _, _, _)
\* <<frontier, best-cost map>> after the successors succs[k..] were handled
\* by that rule.
RegisteredAsClaimed(succs, k, heap, best, visited) ==
    IF k > Len(succs) THEN <<heap, best>>
    ELSE LET s == succs[k]
         IN  IF InsertedAsClaimed(s, visited, best)
             THEN RegisteredAsClaimed(succs, k + 1, HeapPush(heap, s),
                                      SetBest(best, s.id, s.g), visited)
             ELSE RegisteredAsClaimed(succs, k + 1, heap, best, visited)

\* C25 as claimed: while expanding a node, a successor s is inserted into the
\* frontier, and s.g recorded as the best cost of s.id, if and only if s.id
\* is not in the visited set and s.g is strictly lower than the best cost
\* recorded for s.id (+infinity when none is recorded); a successor with g
\* equal to the recorded best is skipped.
C25_InsertedIffUnvisitedAndBetter ==
    [][Expands =>
          <<pending_nodes', best_g_costs'>> =
              RegisteredAsClaimed(GetSuccessors(Top, nextObj), 1,
                                  HeapPop(pending_nodes)[2], best_g_costs,
                                  visited_nodes)]_vars

\* The number of entries of the sequence q that are the node object n.
Count(q, n) == Cardinality({k \in 1..Len(q) : q[k] = n})

\* C29: for every node n in the frontier the best-cost map has an entry for
\* n.id, and that entry is at most n.g; the frontier may hold several nodes
\* of one id; entries leave the frontier only by being popped.
C29_FrontierWithinBest ==
    /\ [](apc # "idle" =>
            \A n \in Range(pending_nodes) :
               /\ n.id \in DOMAIN best_g_costs
               /\ best_g_costs[n.id] <= n.g)
    /\ [][apc = "loop" /\ pending_nodes # <<>> =>
            /\ popped' = Append(popped, Top)
            /\ \A n \in Range(pending_nodes) :
                  Count(pending_nodes', n) >=
                      Count(pending_nodes, n) - (IF n = Top THEN 1 ELSE 0)]_vars

\* The frontier holds two nodes of one id, one of them with a g above the
\* best cost recorded for the id.
C29_Witness ==
    /\ apc = "loop"
    /\ \E n, m \in Range(pending_nodes) :
          /\ n.id = m.id
          /\ n.obj # m.obj
          /\ best_g_costs[n.id] < n.g


\* ------------------------------------------------------------ C23
\* The targets of build_templates(d).
Targets(d) == {FilePath(FileKinds[k], d) : k \in 1..Len(FileKinds)}

\* A builder call left every existing file as it was and created every
\* absent target with the lines prepared for it.
KeepsAndCreates ==
    /\ \A q \in DOMAIN fs : fs[q] # Absent => fs'[q] = fs[q]
    /\ \A d \in BuildDays :
          BuildTemplatesCall(d) =>
              \A q \in DOMAIN fs :
                  fs[q] = Absent =>
                      fs'[q] = IF q \in Targets(d)
                               THEN Prepare(q[1], d, bpuzzles)
                               ELSE Absent
    /\ BuildAllTemplatesCall =>
          \A q \in DOMAIN fs :
              fs[q] = Absent => fs'[q] = Prepare(q[1], q[2], bpuzzles)

\* C23: _write_file never alters an existing file (an existing target keeps
\* its content, an absent one is created with the given lines), so after
\* any sequence of build_templates and build_all_templates calls every built
\* file holds the content of its first write.
C23_ExistingFilesKept ==
    /\ [](\A q \in DOMAIN written : written[q] # Absent => fs[q] = written[q])
    /\ [][KeepsAndCreates]_vars

\* build_all_templates ran over a file a builder with another puzzle name
\* wrote earlier and over a file that was there before any builder; both are
\* as they were.
C23_Witness ==
    /\ bop = "build_all_templates"
    /\ \E q \in DOMAIN fs :
          /\ written[q] # Absent
          /\ written[q] # Prepare(q[1], q[2], bpuzzles)
          /\ fs[q] = written[q]
    /\ \E q \in DOMAIN fs : fs[q] = <<"foreign">>


\* ------------------------------------------------------ C21, C22
UpdateOps == {"_update_missing_names", "_update_missing_names (legacy)"}

\* The days a call of _update_missing_names is to request: the name was
\* "-" and December <day> of the calendar year is not later than now.
Due == {d \in CalendarDays :
           cout.before[d] = "-" /\ DtLeq(TargetDt(year, d), cin.now)}

RECURSIVE Ascending(_, _)
\* The days of a set from day d on, in ascending order.
Ascending(days, d) ==
    IF d \notin CalendarDays THEN <<>>
    ELSE (IF d \in days THEN <<d>> ELSE <<>>) \o Ascending(days, d + 1)

\* The name of a requested day could not be obtained: the answer was not
\* 200 or no title was scrapped.
Unobtainable(d) == cin.web[d].status # 200 \/ cin.web[d].parse # "returns"

\* C21: _update_missing_names requests a puzzle page exactly for the days
\* whose stored name is "-" and whose date is not later than the current
\* time, in ascending order; days with a known name and future days are
\* neither requested nor modified.
C21_RequestsExactlyDueDays ==
    cop \in UpdateOps =>
        /\ cout.requested = Ascending(Due, 1)
        /\ \A d \in CalendarDays \ Due : cnames[d] = cout.before[d]

\* C22: for every day whose unknown name cannot be obtained from the web,
\* _update_missing_names completes without raising and leaves the stored
\* name as "-".
C22_UnobtainableNamesKept ==
    cop \in UpdateOps =>
        /\ cout.raised = ""
        /\ \A d \in Due \cap ScrapDays : Unobtainable(d) => cnames[d] = "-"

\* What does hold of the requests: only due days are requested, in
\* ascending order, and the other days keep their names.
OnlyDueDaysRequested ==
    cop \in UpdateOps =>
        /\ \E n \in 0..Len(Ascending(Due, 1)) :
              cout.requested = SubSeq(Ascending(Due, 1), 1, n)
        /\ \A d \in CalendarDays \ Due : cnames[d] = cout.before[d]


\* ------------------------------------------------------------ C30
\* The scrapper's methods leave paths.day at their day argument and
\* write_to_readme leaves it at the day of the last table row.
DayAfterScrapAndWrite ==
    /\ \A v \in ScrapDays : ScrapPuzzleName(v) \/ ScrapPuzzleInput(v) => day' = v
    /\ WriteToReadme => day' = 25

\* C30: after scrap_puzzle_name(day) or scrap_puzzle_input(day) the
\* manager's day equals that day, after write_to_readme() it equals the day
\* of the last table row (25) whatever it was before, so register_day(d)
\* leaves paths.day at 25 rather than d.
C30_SharedDayMutated ==
    [][/\ DayAfterScrapAndWrite
       /\ \A v \in ScrapDays : RegisterDay(v) => day' = 25]_vars

\* What does hold: the first two parts of the claim.
ScrapAndWriteSetDay == [][DayAfterScrapAndWrite]_vars

============================================================================
